---- MODULE Spec2Model ----
(***************************************************************************)
(* Cross-chain inclusion-proof relay: the two scripts of the repository.   *)
(*   flow = "exec"      scripts/interop-test.ts  (executeBundle)           *)
(*   flow = "readonly"  unnamed/part_000         (proveL2MessageInclusion- *)
(*                                                Shared)                  *)
(* main is one sequential async function: pc is its position, every action *)
(* is the code that runs from one await to the next, and the answer of the *)
(* chain endpoint to the awaited call is drawn with \E.                    *)
(***************************************************************************)
EXTENDS Integers, Sequences, FiniteSets, TLC

\* ---------------------------------------------------------------- bounds
\* Block heights and receipt block numbers range over 0..MaxBlock.
MaxBlock == 2
\* Batch numbers of a log proof range over 1..MaxBatch.
MaxBatch == 1
\* The getLogProof polls of one run are counted up to this number (the loop
\* itself has no bound; the count saturates).
MaxProofPolls == 1
\* The message index of a log proof (logProof.id) ranges over 0..MaxLogId.
MaxLogId == 1
\* A receipt carries 0..MaxLogs outbound (L2->L1) logs.
MaxLogs == 2

\* ------------------------------------------------------ program constants
POLL_INTERVAL == 100
DEFAULT_TIMEOUT == 60000

\* let retries = Math.floor(DEFAULT_TIMEOUT / POLL_INTERVAL)
InitialRetries == DEFAULT_TIMEOUT \div POLL_INTERVAL

\* ------------------------------------------------------------ root strings
\* A hex string is a sequence of characters. Root reads are two-digit strings
\* (standing for the 32 bytes), the empty string stands for null/undefined.
HexChars == {"0", "a", "A"}
RootStrings == {<<c1, c2>> : c1 \in HexChars, c2 \in HexChars}
\* `0x${"00".repeat(32)}`
ZeroRoot == <<"0", "0">>
\* ethers.ZeroAddress: the all-zero string of the other (20 byte) length
ZeroAddress == <<"0">>
NullRoot == <<>>

\* String.prototype.toLowerCase, character by character
LowerChar(c) == IF c = "A" THEN "a" ELSE c
ToLowerCase(s) == [i \in 1..Len(s) |-> LowerChar(s[i])]

\* root && root !== ethers.ZeroAddress && root !== `0x${"00".repeat(32)}`
IsNonZeroRoot(root) == root # NullRoot /\ root # ZeroAddress /\ root # ZeroRoot

\* ------------------------------------------------------------------ reads
\* The answer of an awaited chain read: kind "throw" (the promise rejected),
\* "null" (resolved to null), "block" (a block with a number), "root" (a
\* string), "none" (no read yet).
Read(kind, root, number) == [kind |-> kind, root |-> root, number |-> number]
NoRead == Read("none", NullRoot, 0)
ThrowRead == Read("throw", NullRoot, 0)

\* provider.getBlock("finalized")
BlockReads == {ThrowRead, Read("null", NullRoot, 0)} \cup
              {Read("block", NullRoot, n) : n \in 0..MaxBlock}
\* contract.interopRoots(chainId, batchNumber)
RootReads == {ThrowRead} \cup
             {Read("root", r, 0) : r \in RootStrings \cup {NullRoot, ZeroAddress}}

\* try { executedBlock = block?.number ?? 0 } catch { executedBlock = 0 }
ExecutedBlock(r) == IF r.kind = "block" THEN r.number ELSE 0

\* try { root = await contract.interopRoots(..) } catch { root = null }
FetchedRoot(r) == IF r.kind = "root" THEN r.root ELSE NullRoot

\* ----------------------------------------------------------------- errors
Err(kind, expected, got) == [kind |-> kind, expected |-> expected, got |-> got]
NoErr == Err("none", NullRoot, NullRoot)
PlainErr(kind) == Err(kind, NullRoot, NullRoot)

\* ------------------------------------------------------------- log proofs
\* provider.getLogProof(txHash, 0): null or {batch_number, id, root, proof}
\* The proof field is the list of sibling digests from leaf `id` up to the
\* root: it is fixed by the two, and stands here as that pair.
MerklePath(id, root) == <<id, root>>
LogProof(present, batch, id, root) ==
  [present |-> present, batch_number |-> batch, id |-> id, root |-> root,
   proof |-> MerklePath(id, root)]
NoProof == LogProof(FALSE, 0, 0, NullRoot)
\* roots an endpoint reports for a batch: non-zero, in either letter case
ProofRoots == {<<"a", "A">>, <<"0", "a">>}
LogProofs == {LogProof(TRUE, b, i, r) : b \in 1..MaxBatch, i \in 0..MaxLogId,
                                       r \in ProofRoots}

\* ---------------------------------------------------------------- bundles
\* bundleEvent.args.interopBundle, with the fields of bundleType
Bundle(salt, calls) ==
  [version |-> "v1", sourceChainId |-> "chainA", destinationChainId |-> "chainB",
   interopBundleSalt |-> salt, calls |-> calls, bundleAttributes |-> "attrs"]
NoBundle == Bundle("none", <<>>)
\* the bundles an InteropBundleSent event may carry: one call, two calls
Bundles == {Bundle("s1", <<"call1">>), Bundle("s2", <<"call1", "call2">>)}

\* ethers.AbiCoder.defaultAbiCoder().encode([bundleType], [interopBundle]): the
\* words of the tuple in schema order, the dynamic array behind its length
EncodeBundle(b) ==
  <<b.version, b.sourceChainId, b.destinationChainId, b.interopBundleSalt>>
    \o <<Len(b.calls)>> \o b.calls \o <<b.bundleAttributes>>
NoBytes == <<>>

\* ---------------------------------------------------------- outbound logs
\* sendReceipt.l2ToL1Logs: the i-th outbound log of the receipt (undefined and
\* the empty array are the same to the ?.[..] reads)
L2ToL1Log(i) == [sender |-> "interopCenter", data |-> i]
NoLog == [sender |-> "none", data |-> 0]
L2ToL1LogLists == {[i \in 1..n |-> L2ToL1Log(i)] : n \in 0..MaxLogs}

\* The first log, whatever the index
SelectLogFirst(logs, logIndex) ==
  IF 1 \in DOMAIN logs THEN logs[1] ELSE NoLog

\* sendReceipt.l2ToL1Logs?.[logIndex] ?? sendReceipt.l2ToL1Logs?.[0]
\* (JavaScript indexes from 0, sequences from 1)
SelectLog(logs, logIndex) ==
  IF logIndex + 1 \in DOMAIN logs THEN logs[logIndex + 1]
  ELSE IF 1 \in DOMAIN logs THEN logs[1]
  ELSE NoLog

\* The message of the read-only flow: {receipt.index, receipt.from, 'hello interop'}
L1Message == [sender |-> "walletA", data |-> 0]

\* const proof = { chainId, l1BatchNumber, l2MessageIndex, message, proof }
InclusionProof(chainId, batch, index, message, path) ==
  [chainId |-> chainId, l1BatchNumber |-> batch, l2MessageIndex |-> index,
   message |-> message, proof |-> path]
NoInclusionProof == InclusionProof("none", 0, 0, NoLog, MerklePath(0, NullRoot))

\* The arguments of the destination call
DestArgs(bytes, p) == [bundleBytes |-> bytes, proof |-> p]
NoArgs == DestArgs(NoBytes, NoInclusionProof)

RequiredEnv == {"PRIVATE_KEY", "L2_RPC_URL", "L2_RPC_URL_SECOND"}

VARIABLES
  flow,         \* which script runs
  envMissing,   \* the required environment variables that are unset or empty
  pc,           \* position of main
  err,          \* the error main rejected with (NoErr: none)
  exitCode,     \* process exit status (-1: still running)
  sentLogs,     \* the sendMessage receipt's logs: "none" (no receipt yet), "event"
                \* (they hold an InteropBundleSent event), "empty" (they do not)
  waiter,       \* the bounded waiter entered last: "none", "finality", "root"
  blockNumber,  \* the finality waiter's parameter (receipt.blockNumber)
  retries,      \* its local `retries`
  fetches,      \* reads it has issued
  sleeps,       \* sleeps it has done
  hist,         \* the reads it has retried after, by class (see NextHist)
  last,         \* the answer to the read that ended it (NoRead while it runs)
  outcome,      \* "running", "ok", "timeout", "mismatch"
  proofPolls,   \* getLogProof calls issued so far (saturating at MaxProofPolls)
  logProof,     \* const logProof = await getLogProof(hash, 0) after the wait
  rootKey,      \* (chainId, batchNumber) the root waiter queries
  sends,        \* sendMessage transactions submitted
  l1Sends,      \* (readonly) sendToL1 transactions submitted
  destCalls,    \* executeBundle / proveL2MessageInclusionShared calls issued
  interopBundle,\* (exec) bundleEvent.args.interopBundle
  bundleBytes,  \* (exec) const bundleBytes
  l2ToL1Logs,   \* (exec) sendReceipt.l2ToL1Logs
  l2ToL1Log,    \* (exec) const l2ToL1Log
  proof,        \* (exec) const proof
  destArgs,     \* the arguments the destination call was issued with
  destResult    \* what the destination gave back: "none", "tx" (executeBundle
                \* resolved), "receipt" / "null" (execTx.wait()), "true" / "false"

vars == <<flow, envMissing, pc, err, exitCode, sentLogs, waiter, blockNumber, retries,
          fetches, sleeps, hist, last, outcome, proofPolls, logProof, rootKey, sends,
          l1Sends, destCalls, interopBundle, bundleBytes, l2ToL1Logs, l2ToL1Log, proof,
          destArgs, destResult>>

\* What main keeps of the sendMessage receipt, and what it builds for and gets
\* from the destination
sendReceipt == <<interopBundle, bundleBytes, l2ToL1Logs>>
relay == <<l2ToL1Log, proof, destArgs, destResult>>

\* The parameters, locals and call statistics of the waiter entered last. They
\* stay visible in the state its return or throw leads to and are dropped by
\* the step after.
frame == <<waiter, blockNumber, retries, fetches, sleeps, hist, last, outcome>>

\* (await providerA.getNetwork()).chainId
ChainIdA == "chainA"

Init ==
  /\ flow \in {"exec", "readonly"}
  /\ envMissing \in SUBSET RequiredEnv
  /\ pc = "start"
  /\ err = NoErr
  /\ exitCode = -1
  /\ sentLogs = "none"
  /\ blockNumber = 0
  /\ waiter = "none"
  /\ retries = 0
  /\ fetches = 0
  /\ sleeps = 0
  /\ hist = "none"
  /\ last = NoRead
  /\ outcome = "running"
  /\ proofPolls = 0
  /\ logProof = NoProof
  /\ rootKey = <<ChainIdA, 0>>
  /\ sends = 0
  /\ l1Sends = 0
  /\ destCalls = 0
  /\ interopBundle = NoBundle
  /\ bundleBytes = NoBytes
  /\ l2ToL1Logs = <<>>
  /\ l2ToL1Log = NoLog
  /\ proof = NoInclusionProof
  /\ destArgs = NoArgs
  /\ destResult = "none"

\* ------------------------------------------------------- error propagation
\* An error that is recorded while main carries on where it was
RaiseSwallowed(e) ==
  /\ err' = e
  /\ pc' = pc

\* A throw inside main (or inside a waiter main awaits) rejects main's promise.
Raise(e) ==
  /\ err' = e
  /\ pc' = "rejected"

\* The locals of a waiter that has returned are gone once its caller moves on.
DropFrame ==
  /\ waiter' = "none"
  /\ blockNumber' = 0
  /\ retries' = 0
  /\ fetches' = 0
  /\ sleeps' = 0
  /\ hist' = "none"
  /\ last' = NoRead
  /\ outcome' = "running"

\* main().catch((err) => { console.error(..); process.exit(1); })
MainCatch ==
  /\ pc = "rejected"
  /\ pc' = "failed"
  /\ exitCode' = 1
  /\ DropFrame
  /\ UNCHANGED <<flow, envMissing, l1Sends, sendReceipt, relay, err, sentLogs,
                 proofPolls, logProof, rootKey, sends, destCalls>>

\* main's promise resolves: the process ends with status 0
Resolve ==
  /\ pc' = "done"
  /\ exitCode' = 0
  /\ err' = err

\* An awaited chain call that either resolves (main goes on at `to`) or rejects.
CallStep(from, to) ==
  /\ pc = from
  /\ \E ok \in BOOLEAN :
       IF ok THEN pc' = to /\ err' = err ELSE Raise(PlainErr("RpcError"))

\* ------------------------------------------------------------ main, set-up
\* Only the key is required
StartChecksKeyOnly ==
  /\ pc = "start"
  /\ IF "PRIVATE_KEY" \in envMissing
       THEN Raise(PlainErr("MissingEnv"))
       ELSE pc' = "deploy" /\ err' = err
  /\ UNCHANGED <<flow, envMissing, l1Sends, sendReceipt, relay, exitCode, sentLogs,
                 frame, proofPolls, logProof, rootKey, sends, destCalls>>

\* requireEnv x3; (exec) loadArtifact; the providers and wallets are created
Start ==
  /\ pc = "start"
  /\ IF envMissing # {}
       THEN Raise(PlainErr("MissingEnv"))
       ELSE \E artifactOk \in BOOLEAN :
              IF flow = "exec" /\ ~artifactOk
                THEN Raise(PlainErr("ArtifactError"))
                ELSE pc' = "deploy" /\ err' = err
  /\ UNCHANGED <<flow, envMissing, l1Sends, sendReceipt, relay, exitCode, sentLogs,
                 frame, proofPolls, logProof, rootKey, sends, destCalls>>

\* deployGreetContract: factory.deploy, waitForDeployment, getAddress
Deploy ==
  /\ CallStep("deploy", IF flow = "exec" THEN "net_b" ELSE "send")
  /\ UNCHANGED <<flow, envMissing, l1Sends, sendReceipt, relay, exitCode, sentLogs,
                 frame, proofPolls, logProof, rootKey, sends, destCalls>>

\* (exec) BigInt((await providerB.getNetwork()).chainId)
NetB ==
  /\ flow = "exec"
  /\ CallStep("net_b", "send")
  /\ UNCHANGED <<flow, envMissing, l1Sends, sendReceipt, relay, exitCode, sentLogs,
                 frame, proofPolls, logProof, rootKey, sends, destCalls>>

\* A rejected submission that is tried again instead of propagating
SendMessageRetried ==
  /\ pc = "send"
  /\ sends' = sends + 1
  /\ \E ok \in BOOLEAN : pc' = (IF ok THEN "send_wait" ELSE "send") /\ err' = err
  /\ UNCHANGED <<flow, envMissing, l1Sends, sendReceipt, relay, exitCode, sentLogs,
                 frame, proofPolls, logProof, rootKey, destCalls>>

\* interopCenter.sendMessage(recipient, payload, attributes, overrides)
SendMessage ==
  /\ CallStep("send", "send_wait")
  /\ sends' = sends + 1
  /\ UNCHANGED <<flow, envMissing, l1Sends, sendReceipt, relay, exitCode, sentLogs,
                 frame, proofPolls, logProof, rootKey, destCalls>>

\* ------------------------------------------------------------ the waiters
\* Entering waitUntilBlockFinalized / waitUntilRootBecomesAvailable:
\* let retries = Math.floor(DEFAULT_TIMEOUT / POLL_INTERVAL); while (retries > 0)
EnterWaiter(w, bn, loopPc, timeoutKind) ==
  /\ waiter' = w
  /\ blockNumber' = bn
  /\ retries' = InitialRetries
  /\ fetches' = 0
  /\ sleeps' = 0
  /\ hist' = "none"
  /\ last' = NoRead
  /\ IF InitialRetries > 0
       THEN outcome' = "running" /\ pc' = loopPc /\ err' = err
       ELSE outcome' = "timeout" /\ Raise(PlainErr(timeoutKind))

\* What a read shows, whatever the waiter makes of it: "throws" (the call
\* rejected), "present" (a finalized height >= blockNumber, a non-zero root),
\* "absent" (no block, a lower height, a null or zero root).
ReadClass(w, r, bn) ==
  IF r.kind = "throw" THEN "throws"
  ELSE IF w = "finality"
    THEN IF r.kind = "block" /\ r.number >= bn THEN "present" ELSE "absent"
    ELSE IF IsNonZeroRoot(r.root) THEN "present" ELSE "absent"

\* The reads the running waiter has retried after: "none", "throws", "absent",
\* "mixed" (both), "present" (it retried after a present value).
NextHist(h, c) ==
  IF h = "present" \/ c = "present" THEN "present"
  ELSE IF h = "none" \/ h = c THEN c ELSE "mixed"

\* The loop written `while (retries >= 0)`: one attempt too many
RetryOrTimeoutOffByOne(r, loopPc, timeoutKind) ==
  /\ retries' = retries - 1
  /\ fetches' = fetches + 1
  /\ sleeps' = sleeps + 1
  /\ hist' = NextHist(hist, ReadClass(waiter, r, blockNumber))
  /\ UNCHANGED <<waiter, blockNumber>>
  /\ IF retries - 1 >= 0
       THEN outcome' = "running" /\ last' = NoRead /\ pc' = loopPc /\ err' = err
       ELSE outcome' = "timeout" /\ last' = r /\ Raise(PlainErr(timeoutKind))

\* retries -= 1; await sleep(POLL_INTERVAL); back to `while (retries > 0)`,
\* and past the loop: throw new Error("... in time")
RetryOrTimeout(r, loopPc, timeoutKind) ==
  /\ retries' = retries - 1
  /\ fetches' = fetches + 1
  /\ sleeps' = sleeps + 1
  /\ hist' = NextHist(hist, ReadClass(waiter, r, blockNumber))
  /\ UNCHANGED <<waiter, blockNumber>>
  /\ IF retries - 1 > 0
       THEN outcome' = "running" /\ last' = NoRead /\ pc' = loopPc /\ err' = err
       ELSE outcome' = "timeout" /\ last' = r /\ Raise(PlainErr(timeoutKind))

\* `return` out of the waiter's loop
WaiterReturn(r, nextPc) ==
  /\ fetches' = fetches + 1
  /\ last' = r
  /\ outcome' = "ok"
  /\ pc' = nextPc
  /\ err' = err
  /\ UNCHANGED <<waiter, blockNumber, retries, sleeps, hist>>

\* The test written with > for >=
IsFinalizedStrict(r, bn) == ExecutedBlock(r) > bn

\* if (executedBlock >= blockNumber) return;
IsFinalized(r, bn) == ExecutedBlock(r) >= bn

\* waitUntilBlockFinalized called without await: the proof loop starts at once
FinalityAttemptNotAwaited ==
  /\ pc = "fin"
  /\ pc' = "proof"
  /\ UNCHANGED <<flow, envMissing, l1Sends, sendReceipt, relay, err, exitCode, sentLogs,
                 frame, proofPolls, logProof, rootKey, sends, destCalls>>

\* One pass of waitUntilBlockFinalized's loop: getBlock("finalized"), the test,
\* and, when not finalized, the decrement and the sleep. On return
\* waitForL2ToL1LogProof goes on to its getLogProof loop.
FinalityAttempt ==
  /\ pc = "fin"
  /\ \E r \in BlockReads :
       IF IsFinalized(r, blockNumber)
         THEN WaiterReturn(r, "proof")
         ELSE RetryOrTimeout(r, "fin", "FinalityTimeout")
  /\ UNCHANGED <<flow, envMissing, l1Sends, sendReceipt, relay, exitCode, sentLogs,
                 proofPolls, logProof, rootKey, sends, destCalls>>

\* const sendReceipt = await sendTx.wait(), then up to the next await.
\* exec: the receipt check, the InteropBundleSent search, the bundle encoding and
\* the call of waitForL2ToL1LogProof(providerA, blockNumber, hash).
\* readonly: the receipt is only logged (receipt.blockNumber of null throws).
SendWait ==
  /\ pc = "send_wait"
  /\ \E kind \in {"throw", "null", "receipt"}, bn \in 0..MaxBlock,
        logs \in {"event", "empty"} :
       CASE kind = "throw" ->
              /\ Raise(PlainErr("RpcError"))
              /\ UNCHANGED <<sentLogs, frame, sendReceipt>>
         [] kind = "null" ->
              /\ Raise(PlainErr(IF flow = "exec" THEN "MissingReceipt" ELSE "TypeError"))
              /\ UNCHANGED <<sentLogs, frame, sendReceipt>>
         [] kind = "receipt" /\ flow = "exec" /\ logs = "empty" ->
              /\ sentLogs' = logs
              /\ Raise(PlainErr("MissingEvent"))
              /\ UNCHANGED <<frame, sendReceipt>>
         [] kind = "receipt" /\ flow = "exec" /\ logs = "event" ->
              /\ sentLogs' = logs
              /\ \E b \in Bundles :
                   /\ interopBundle' = b
                   /\ bundleBytes' = EncodeBundle(b)
              /\ l2ToL1Logs' \in L2ToL1LogLists
              /\ EnterWaiter("finality", bn, "fin", "FinalityTimeout")
         [] kind = "receipt" /\ flow = "readonly" ->
              /\ sentLogs' = logs
              /\ pc' = "l1_fee"
              /\ err' = err
              /\ UNCHANGED <<frame, sendReceipt>>
  /\ UNCHANGED <<flow, envMissing, l1Sends, relay, exitCode, proofPolls, logProof,
                 rootKey, sends, destCalls>>

\* (readonly) messenger.runner.provider.getFeeData()
L1Fee ==
  /\ flow = "readonly"
  /\ CallStep("l1_fee", "l1_gas")
  /\ UNCHANGED <<flow, envMissing, l1Sends, sendReceipt, relay, exitCode, sentLogs,
                 frame, proofPolls, logProof, rootKey, sends, destCalls>>

\* (readonly) messenger.sendToL1.estimateGas(data)
L1Gas ==
  /\ flow = "readonly"
  /\ CallStep("l1_gas", "l1_send")
  /\ UNCHANGED <<flow, envMissing, l1Sends, sendReceipt, relay, exitCode, sentLogs,
                 frame, proofPolls, logProof, rootKey, sends, destCalls>>

\* (readonly) messenger.sendToL1(data, overrides)
L1Send ==
  /\ flow = "readonly"
  /\ CallStep("l1_send", "l1_wait")
  /\ l1Sends' = l1Sends + 1
  /\ UNCHANGED <<flow, envMissing, sendReceipt, relay, exitCode, sentLogs, frame,
                 proofPolls, logProof, rootKey, sends, destCalls>>

\* (readonly) const receipt = await tx.wait(); receipt.blockNumber is logged and
\* handed to waitForL2ToL1LogProof(walletA, receipt.blockNumber, tx.hash)
L1Wait ==
  /\ flow = "readonly"
  /\ pc = "l1_wait"
  /\ \E kind \in {"throw", "null", "receipt"}, bn \in 0..MaxBlock :
       CASE kind = "throw" ->
              Raise(PlainErr("RpcError")) /\ UNCHANGED frame
         [] kind = "null" ->
              Raise(PlainErr("TypeError")) /\ UNCHANGED frame
         [] kind = "receipt" ->
              EnterWaiter("finality", bn, "fin", "FinalityTimeout")
  /\ UNCHANGED <<flow, envMissing, l1Sends, sendReceipt, relay, exitCode, sentLogs,
                 proofPolls, logProof, rootKey, sends, destCalls>>

CountPoll(n) == IF n < MaxProofPolls THEN n + 1 ELSE n

\* The answer of the getLogProof call in the loop condition of
\* waitForL2ToL1LogProof: while ((await provider.getLogProof(txHash, 0)) == null).
\* Nothing catches a rejection here: it rejects the waiter and main.
ProofLoopStep(kind) ==
  CASE kind = "throw" -> Raise(PlainErr("RpcError"))
    [] kind = "null" -> pc' = "proof_sleep" /\ err' = err
    [] kind = "proof" -> pc' = "proof_get" /\ err' = err

ProofPoll ==
  /\ pc = "proof"
  /\ proofPolls' = CountPoll(proofPolls)
  /\ \E kind \in {"throw", "null", "proof"} : ProofLoopStep(kind)
  /\ DropFrame
  /\ UNCHANGED <<flow, envMissing, l1Sends, sendReceipt, relay, exitCode, sentLogs,
                 logProof, rootKey, sends, destCalls>>

\* await utils.sleep(provider.pollingInterval); the loop has no other exit
ProofSleep ==
  /\ pc = "proof_sleep"
  /\ pc' = "proof"
  /\ UNCHANGED <<flow, envMissing, l1Sends, sendReceipt, relay, err, exitCode, sentLogs,
                 frame, proofPolls, logProof, rootKey, sends, destCalls>>

\* const logProof = await provider.getLogProof(hash, 0) after the wait.
\* exec: if (!logProof) throw; the outbound log is picked, if (!l2ToL1Log) throw.
\* readonly: logProof.batch_number of null throws.
ProofGet ==
  /\ pc = "proof_get"
  /\ proofPolls' = CountPoll(proofPolls)
  /\ \/ Raise(PlainErr("RpcError")) /\ UNCHANGED <<logProof, l2ToL1Log>>
     \/ /\ Raise(PlainErr(IF flow = "exec" THEN "MissingLogProof" ELSE "TypeError"))
        /\ UNCHANGED <<logProof, l2ToL1Log>>
     \/ \E p \in LogProofs :
          /\ logProof' = p
          /\ IF flow = "exec"
               THEN /\ l2ToL1Log' = SelectLog(l2ToL1Logs, p.id)
                    /\ IF l2ToL1Log' = NoLog
                         THEN Raise(PlainErr("MissingLog"))
                         ELSE pc' = "net_a1" /\ err' = err
               ELSE /\ l2ToL1Log' = l2ToL1Log
                    /\ pc' = "net_a1"
                    /\ err' = err
  /\ UNCHANGED <<proof, destArgs, destResult>>
  /\ UNCHANGED <<flow, envMissing, l1Sends, sendReceipt, exitCode, sentLogs, frame,
                 rootKey, sends, destCalls>>

\* waitUntilRootBecomesAvailable(providerB, chainId of A, logProof.batch_number,
\* logProof.root): the arguments of the call
RootKeyArg == <<ChainIdA, logProof.batch_number>>
ExpectedRootArg == logProof.root

EnterRootWaiter ==
  /\ rootKey' = RootKeyArg
  /\ EnterWaiter("root", 0, "root", "RootTimeout")

\* (exec) const proof = { chainId, l1BatchNumber: logProof.batch_number,
\*   l2MessageIndex: logProof.id, message: { .., l2ToL1Log.sender, l2ToL1Log.data },
\*   proof: logProof.proof }
ProofRecord ==
  InclusionProof(ChainIdA, logProof.batch_number, logProof.id, l2ToL1Log, logProof.proof)

\* First (await providerA.getNetwork()).chainId after the proof: exec builds the
\* proof record with it, readonly passes it to the root waiter.
NetA1 ==
  /\ pc = "net_a1"
  /\ \E ok \in BOOLEAN :
       IF ~ok THEN Raise(PlainErr("RpcError")) /\ UNCHANGED <<frame, rootKey, proof>>
       ELSE IF flow = "exec"
         THEN /\ proof' = ProofRecord
              /\ pc' = "net_a2"
              /\ err' = err
              /\ UNCHANGED <<frame, rootKey>>
         ELSE EnterRootWaiter /\ UNCHANGED proof
  /\ UNCHANGED <<l2ToL1Log, destArgs, destResult>>
  /\ UNCHANGED <<flow, envMissing, l1Sends, sendReceipt, exitCode, sentLogs, proofPolls,
                 logProof, sends, destCalls>>

\* Second getNetwork: exec passes it to the root waiter, readonly (after the
\* root wait) to proveL2MessageInclusionShared.
NetA2 ==
  /\ pc = "net_a2"
  /\ \E ok \in BOOLEAN :
       IF ~ok THEN Raise(PlainErr("RpcError")) /\ UNCHANGED <<frame, rootKey>>
       ELSE IF flow = "exec"
         THEN EnterRootWaiter
         ELSE pc' = "dest" /\ err' = err /\ UNCHANGED <<frame, rootKey>>
  /\ UNCHANGED <<flow, envMissing, l1Sends, sendReceipt, relay, exitCode, sentLogs,
                 proofPolls, logProof, sends, destCalls>>

\* A waiter that accepts whatever non-zero root it reads
RootVerdictIgnoresExpected(root, expected) ==
  IF IsNonZeroRoot(root) THEN "ok" ELSE "retry"

\* A waiter that keeps polling when the root it reads differs from the expected one
RootVerdictRetriesMismatch(root, expected) ==
  IF IsNonZeroRoot(root) /\ ToLowerCase(root) = ToLowerCase(expected) THEN "ok" ELSE "retry"

\* if (root && root !== ZeroAddress && root !== zero32) {
\*   if (root.toLowerCase() === expectedRoot.toLowerCase()) return;
\*   throw new Error(`Interop root mismatch: ...`) }
RootVerdict(root, expected) ==
  IF IsNonZeroRoot(root)
    THEN IF ToLowerCase(root) = ToLowerCase(expected) THEN "ok" ELSE "mismatch"
    ELSE "retry"

\* One pass of waitUntilRootBecomesAvailable's loop.
RootAttempt ==
  /\ pc = "root"
  /\ \E r \in RootReads :
       LET root == FetchedRoot(r)
           v == RootVerdict(root, ExpectedRootArg)
       IN  CASE v = "ok" ->
                  WaiterReturn(r, IF flow = "exec" THEN "dest" ELSE "net_a2")
             [] v = "mismatch" ->
                  /\ fetches' = fetches + 1
                  /\ last' = r
                  /\ outcome' = "mismatch"
                  /\ Raise(Err("RootMismatch", ExpectedRootArg, root))
                  /\ UNCHANGED <<waiter, blockNumber, retries, sleeps, hist>>
             [] v = "retry" ->
                  RetryOrTimeout(r, "root", "RootTimeout")
  /\ UNCHANGED <<flow, envMissing, l1Sends, sendReceipt, relay, exitCode, sentLogs,
                 proofPolls, logProof, rootKey, sends, destCalls>>

\* exec: interopHandler.executeBundle(bundleBytes, proof, overrides)
\* readonly: verifier.proveL2MessageInclusionShared(..) and
\*           if (!included) throw new Error('Message was NOT included')
\* Only the calls of the bundle are passed on
BundleBytesArgCallsOnly == IF flow = "exec" THEN interopBundle.calls ELSE NoBytes

\* The first argument of the destination call (the read-only call has none)
BundleBytesArg == IF flow = "exec" THEN bundleBytes ELSE NoBytes
ProofArg ==
  IF flow = "exec" THEN proof
  ELSE InclusionProof(ChainIdA, logProof.batch_number, logProof.id, L1Message,
                      logProof.proof)

\* The result is logged and not tested
IncludedVerdictIgnored(included) == Resolve

\* if (!included) throw new Error('Message was NOT included'); else main returns
IncludedVerdict(included) ==
  IF included THEN Resolve
  ELSE Raise(PlainErr("NotIncluded")) /\ UNCHANGED exitCode

DestCall ==
  /\ pc = "dest"
  /\ destCalls' = destCalls + 1
  /\ destArgs' = DestArgs(BundleBytesArg, ProofArg)
  /\ \/ Raise(PlainErr("RpcError")) /\ UNCHANGED <<exitCode, destResult>>
     \/ /\ flow = "exec"
        /\ destResult' = "tx"
        /\ pc' = "dest_wait"
        /\ err' = err
        /\ UNCHANGED exitCode
     \/ /\ flow = "readonly"
        /\ \E included \in BOOLEAN :
             /\ destResult' = IF included THEN "true" ELSE "false"
             /\ IncludedVerdict(included)
  /\ DropFrame
  /\ UNCHANGED <<l2ToL1Log, proof>>
  /\ UNCHANGED <<flow, envMissing, l1Sends, sendReceipt, sentLogs, proofPolls, logProof,
                 rootKey, sends>>

\* exec: const execReceipt = await execTx.wait(); console.log(execReceipt?.hash)
DestWait ==
  /\ flow = "exec"
  /\ pc = "dest_wait"
  /\ \/ Raise(PlainErr("RpcError")) /\ UNCHANGED <<exitCode, destResult>>
     \/ destResult' \in {"receipt", "null"} /\ Resolve
  /\ UNCHANGED <<l2ToL1Log, proof, destArgs>>
  /\ UNCHANGED <<flow, envMissing, l1Sends, sendReceipt, sentLogs, frame, proofPolls,
                 logProof, rootKey, sends, destCalls>>

Next ==
  \/ Start
  \/ Deploy
  \/ NetB
  \/ SendMessage
  \/ SendWait
  \/ L1Fee
  \/ L1Gas
  \/ L1Send
  \/ L1Wait
  \/ FinalityAttempt
  \/ ProofPoll
  \/ ProofSleep
  \/ ProofGet
  \/ NetA1
  \/ NetA2
  \/ RootAttempt
  \/ DestCall
  \/ DestWait
  \/ MainCatch

Spec == Init /\ [][Next]_vars

\* The event loop resumes main whenever the awaited call has settled.
FairSpec == Spec /\ WF_vars(Next)

\* ------------------------------------------------------------ properties
RootMatches(root, expected) ==
  IsNonZeroRoot(root) /\ ToLowerCase(root) = ToLowerCase(expected)
RootConflicts(root, expected) ==
  IsNonZeroRoot(root) /\ ToLowerCase(root) # ToLowerCase(expected)
Aborted == pc \in {"rejected", "failed"}

\* ---- C1
C1_State ==
  /\ waiter = "root" => hist # "present"
  /\ (waiter = "root" /\ last.kind = "root" /\ RootConflicts(last.root, logProof.root))
       => outcome = "mismatch"
  /\ (waiter = "root" /\ outcome = "mismatch") =>
       /\ pc = "rejected"
       /\ RootConflicts(last.root, logProof.root)
       /\ err = Err("RootMismatch", logProof.root, last.root)
       /\ sleeps = fetches - 1
       /\ hist = "none" => (fetches = 1 /\ sleeps = 0)
  /\ err.kind = "RootMismatch" => Aborted

C1_Step ==
  (waiter = "root" /\ outcome = "mismatch") =>
    /\ pc' # "root"
    /\ ~(waiter' = "root" /\ (fetches' # fetches \/ sleeps' # sleeps))

\* C1: the first interopRoots read that returns a non-zero root different from
\* expectedRoot ends the root waiter at once with a root-mismatch error that
\* carries the expected and the observed value; the waiter never retries after
\* a non-zero read, and neither a read nor a sleep follows the mismatching one
\* (a mismatch on the first attempt: one fetch, no sleep).
C1_MismatchShortCircuit == []C1_State /\ [][C1_Step]_vars

\* C1 witness: the root waiter has thrown the mismatch on its first attempt.
C1_Witness ==
  /\ waiter = "root"
  /\ outcome = "mismatch"
  /\ fetches = 1
  /\ err.kind = "RootMismatch"
  /\ err.got # err.expected

\* ---- C2
C2_Step ==
  destCalls' # destCalls =>
    /\ pc = "dest"
    /\ waiter = "root"
    /\ outcome = "ok"
    /\ logProof.present
    /\ rootKey = <<ChainIdA, logProof.batch_number>>
    /\ last.kind = "root"
    /\ RootMatches(last.root, logProof.root)

C2_State ==
  /\ pc = "dest" => (waiter = "root" /\ outcome = "ok")
  /\ destCalls > 0 => err.kind \notin {"RootMismatch", "RootTimeout"}
  /\ err.kind = "RootMismatch" =>
       /\ Aborted
       /\ destCalls = 0
       /\ pc = "rejected" =>
            /\ RootConflicts(last.root, logProof.root)
            /\ hist # "present"
            /\ hist = "none" => fetches = 1

\* C2 (amended): the destination call (executeBundle, or
\* proveL2MessageInclusionShared) is issued only in a state where the root
\* waiter has returned after reading, under the key (source chain id,
\* logProof.batch_number), a non-zero root equal to logProof.root up to letter
\* case. A root read that returns a non-zero root different from the proof's
\* root fails the run at that read: it is the only read of the run that
\* returned a non-zero root, the only root read at all when it is the first,
\* and the destination call is never issued.
C2_ExecutionGate == []C2_State /\ [][C2_Step]_vars

\* C2 as stated: a mismatching root always fails the run after exactly one
\* root query.
C2_OneQueryOnMismatch ==
  /\ pc = "dest" => (waiter = "root" /\ outcome = "ok")
  /\ err.kind = "RootMismatch" =>
       /\ destCalls = 0
       /\ pc = "rejected" => fetches = 1

\* C2 witness: the destination call was issued and the run completed.
C2_Witness == destCalls = 1 /\ pc = "done" /\ logProof.present

\* ---- C3
InProofLoop == pc \in {"proof", "proof_sleep"}

\* C3: the getLogProof loop of waitForL2ToL1LogProof does not poll forever:
\* whenever it is entered it is eventually left (with a proof, or with an
\* error once a budget is exhausted).
C3_ProofWaitEnds == InProofLoop ~> ~InProofLoop

\* ---- C4
C4_WaiterEnded == waiter \in {"finality", "root"} /\ outcome # "running"

\* C4: a read that throws never ends the root or the finality waiter before
\* the budget is exhausted; after n < budget throwing reads and a successful
\* read the waiter has returned with exactly n + 1 reads, the last of which is
\* the successful one.
C4_ThrowsAreRetried ==
  /\ (C4_WaiterEnded /\ last.kind = "throw") =>
       (outcome = "timeout" /\ fetches = InitialRetries)
  /\ (C4_WaiterEnded /\ outcome = "ok" /\ hist \in {"none", "throws"}) =>
       /\ ReadClass(waiter, last, blockNumber) = "present"
       /\ fetches = (InitialRetries - retries) + 1
       /\ fetches <= InitialRetries

\* ---- C5
\* C5: a getLogProof call of the proof loop that fails is swallowed: the step
\* taken on its answer never rejects main.
C5_ProofErrorsSwallowed == [][pc = "proof" => pc' # "rejected"]_vars

\* ---- C6
C6_State ==
  /\ waiter \in {"finality", "root"} => hist # "present"
  /\ (waiter = "finality" /\ last.kind = "block" /\ last.number >= blockNumber)
       => outcome = "ok"
  /\ (waiter = "root" /\ last.kind = "root" /\ RootMatches(last.root, logProof.root))
       => outcome = "ok"
  /\ (waiter \in {"finality", "root"} /\ outcome = "ok" /\ hist \in {"none", "absent"}
        /\ ReadClass(waiter, last, blockNumber) = "present") =>
       /\ waiter = "root" => RootMatches(last.root, logProof.root)
       /\ fetches = (InitialRetries - retries) + 1
       /\ fetches >= 1
       /\ fetches <= InitialRetries
       /\ sleeps = fetches - 1
       /\ pc \notin {"fin", "root"}

C6_Step ==
  (waiter \in {"finality", "root"} /\ outcome = "ok") =>
    ~(waiter' = waiter /\ (fetches' # fetches \/ sleeps' # sleeps))

\* C6: a waiter whose reads are absent (zero or null root, no block or a
\* height below blockNumber) on attempts 1..k-1 and the success value on
\* attempt k (a height >= blockNumber; a non-zero root equal to expectedRoot up
\* to letter case) returns success with exactly k reads and k-1 sleeps, for
\* every k from 1 to the budget, and reads nothing after the successful read.
C6_IdempotentSuccess == []C6_State /\ [][C6_Step]_vars

\* C6 witness: the root waiter succeeds on the last attempt of its budget, on a
\* root that equals the expected one only up to letter case.
C6_Witness ==
  /\ waiter = "root"
  /\ outcome = "ok"
  /\ hist = "absent"
  /\ fetches = InitialRetries
  /\ last.root # logProof.root

\* ---- C7
BeforeProofWait ==
  pc \in {"start", "deploy", "net_b", "send", "send_wait", "l1_fee", "l1_gas", "l1_send",
          "l1_wait", "fin"}

C7_State ==
  /\ BeforeProofWait => proofPolls = 0
  /\ err.kind = "FinalityTimeout" => proofPolls = 0
  /\ (waiter = "finality" /\ outcome # "ok") => proofPolls = 0
  /\ pc \in {"proof", "proof_sleep", "proof_get"} =>
       (proofPolls > 0 \/ (waiter = "finality" /\ outcome = "ok"))

C7_Step ==
  (proofPolls = 0 /\ proofPolls' # 0) =>
    (pc = "proof" /\ waiter = "finality" /\ outcome = "ok")

\* C7: the first getLogProof query of a run is issued in the state
\* waitUntilBlockFinalized returned success to, and every later one follows it;
\* when the finality wait times out no getLogProof query is ever issued.
C7_FinalityBeforeProof == []C7_State /\ [][C7_Step]_vars

\* C7 witness: a getLogProof poll has been answered "not yet" after finality.
C7_Witness == pc = "proof_sleep" /\ proofPolls = 1

\* ---- C8
C8_RootTimeoutDistinct ==
  /\ (waiter = "root" /\ outcome = "timeout") =>
       /\ pc = "rejected"
       /\ err = PlainErr("RootTimeout")
       /\ fetches = InitialRetries
       /\ retries = 0
       /\ hist \in {"throws", "absent", "mixed"}
       /\ ReadClass("root", last, 0) # "present"
  /\ (waiter = "root" /\ outcome = "running") =>
       (fetches < InitialRetries /\ hist # "present")
  /\ err.kind = "RootTimeout" =>
       /\ Aborted
       /\ pc = "rejected" => (waiter = "root" /\ outcome = "timeout")
  /\ err.kind = "RootMismatch" =>
       /\ IsNonZeroRoot(err.got)
       /\ pc = "rejected" =>
            (waiter = "root" /\ outcome = "mismatch" /\ last.root = err.got)
  /\ (waiter = "root" /\ outcome = "mismatch") => err.kind = "RootMismatch"

\* C8 witness: the root waiter has timed out after throwing and zero reads.
C8_Witness == waiter = "root" /\ outcome = "timeout" /\ hist = "mixed"

\* ---- C9
\* C9: once the sendMessage receipt is in and its logs hold no
\* InteropBundleSent event, the run has failed with the missing-event error,
\* after one send and with no finality, proof or root query and no destination
\* call.
C9_MissingEventFatal ==
  sentLogs = "empty" =>
    /\ Aborted
    /\ err = PlainErr("MissingEvent")
    /\ sends = 1
    /\ waiter = "none"
    /\ proofPolls = 0
    /\ destCalls = 0

\* ---- C10
C10_State ==
  /\ err # NoErr <=> Aborted
  /\ outcome \in {"timeout", "mismatch"} => (pc = "rejected" /\ err # NoErr)
  /\ pc = "failed" <=> exitCode = 1
  /\ pc = "done" <=> exitCode = 0

C10_Step ==
  Aborted =>
    /\ pc = "rejected"
    /\ pc' = "failed"
    /\ exitCode' = 1
    /\ UNCHANGED <<err, sends, destCalls, proofPolls, logProof>>
    /\ waiter' = "none"

\* C10: every error raised in main, in whatever state, leaves the run aborted:
\* the only step that follows is the top-level handler, which exits with status
\* 1; no send, read, poll or destination call follows the error, and nothing
\* follows the exit.
C10_FailureAborts == []C10_State /\ [][C10_Step]_vars

\* C10 witness: the run failed at the last step, on a false inclusion result.
C10_Witness == pc = "failed" /\ exitCode = 1 /\ err.kind = "NotIncluded" /\ destCalls = 1

\* ---- C11
\* The orchestrator state a position of main stands for. Idle: nothing mined yet
\* that is waited on; Sent: the finality wait runs; Finalized: the proof is being
\* fetched; ProofObtained: the post-wait proof is held, the root wait is set up
\* or runs; RootVerified: the root wait returned; Executed: main returned.
Stage ==
  IF Aborted THEN "Failed"
  ELSE IF pc = "done" THEN "Executed"
  ELSE IF pc \in {"dest", "dest_wait"} \/ (flow = "readonly" /\ pc = "net_a2")
    THEN "RootVerified"
  ELSE IF pc \in {"net_a1", "net_a2", "root"} THEN "ProofObtained"
  ELSE IF pc \in {"proof", "proof_sleep", "proof_get"} THEN "Finalized"
  ELSE IF pc = "fin" THEN "Sent"
  ELSE "Idle"

StageRank(st) ==
  CASE st = "Idle" -> 0
    [] st = "Sent" -> 1
    [] st = "Finalized" -> 2
    [] st = "ProofObtained" -> 3
    [] st = "RootVerified" -> 4
    [] st = "Executed" -> 5
    [] st = "Failed" -> 6

C11_State ==
  /\ sends <= 1 /\ l1Sends <= 1 /\ destCalls <= 1
  /\ Stage \in {"Sent", "Finalized", "ProofObtained", "RootVerified", "Executed"} =>
       (sends = 1 /\ (flow = "readonly" => l1Sends = 1))
  /\ Stage \in {"ProofObtained", "RootVerified", "Executed"} => logProof.present
  /\ Stage \in {"Idle", "Sent", "Finalized", "ProofObtained"} => destCalls = 0
  /\ Stage = "Executed" => destCalls = 1

C11_Step ==
  /\ \/ Stage' = Stage
     \/ Stage' = "Failed"
     \/ Stage # "Failed" /\ StageRank(Stage') = StageRank(Stage) + 1
  /\ Stage \in {"Failed", "Executed"} => Stage' = Stage
  /\ sends' # sends => (Stage = "Idle" /\ sends = 0 /\ sends' = 1)
  /\ l1Sends' # l1Sends => (Stage = "Idle" /\ l1Sends = 0 /\ l1Sends' = 1)
  /\ destCalls' # destCalls => (Stage = "RootVerified" /\ destCalls = 0 /\ destCalls' = 1)

\* C11: a run moves through Idle, Sent, Finalized, ProofObtained, RootVerified,
\* Executed one stage at a time, never back and never past one, or leaves for
\* Failed and stays there; sendMessage (and sendToL1) is submitted at most once
\* and only while Idle, the destination call at most once and only from
\* RootVerified.
C11_SequentialSingleSend == []C11_State /\ [][C11_Step]_vars

\* C11 witness: a run that went through every stage, with one send and one
\* destination call.
C11_Witness == Stage = "Executed" /\ sends = 1 /\ destCalls = 1 /\ logProof.present

\* ---- C12
\* C12: in the executeBundle flow a run ends without error only if
\* execTx.wait() gave a mined receipt; a null receipt is not success.
C12_MinedReceiptRequired == (flow = "exec" /\ pc = "done") => destResult = "receipt"

\* ---- C13
C13_State ==
  flow = "readonly" =>
    /\ pc = "done" <=> destResult = "true"
    /\ exitCode = 0 <=> destResult = "true"
    /\ destResult = "false" <=> err.kind = "NotIncluded"
    /\ destResult = "false" => (Aborted /\ exitCode \in {-1, 1})
    /\ destResult \in {"none", "true", "false"}

C13_Step ==
  (flow = "readonly" /\ destResult = "false") =>
    (pc = "rejected" /\ pc' = "failed" /\ exitCode' = 1 /\ UNCHANGED <<err, destResult>>)

\* C13: in the proveL2MessageInclusionShared flow the run ends successfully
\* (main returns, exit status 0) exactly when the call returned true; when it
\* returned false main rejects with 'Message was NOT included' and the only
\* step left is the exit with status 1.
C13_IncludedDecides == []C13_State /\ [][C13_Step]_vars

\* C13 witness: the verification returned false and the process has exited
\* with status 1.
C13_Witness ==
  flow = "readonly" /\ destResult = "false" /\ pc = "failed" /\ exitCode = 1

\* ---- C14
C14_State ==
  envMissing # {} =>
    /\ pc \in {"start", "rejected", "failed"}
    /\ pc # "start" => err.kind = "MissingEnv"
    /\ sends = 0 /\ l1Sends = 0 /\ destCalls = 0 /\ proofPolls = 0
    /\ waiter = "none" /\ fetches = 0
    /\ sentLogs = "none" /\ ~logProof.present /\ destResult = "none"

C14_Step ==
  /\ (envMissing # {} /\ pc = "start") => (pc' = "rejected" /\ err'.kind = "MissingEnv")
  /\ err'.kind = "MissingEnv" => (envMissing # {} /\ pc \in {"start", "rejected"})

\* C14: when any of PRIVATE_KEY, L2_RPC_URL, L2_RPC_URL_SECOND is unset or
\* empty, the first step of main rejects with the missing-env error; no
\* transaction, read, poll or destination call is ever made, and main is not
\* entered again.
C14_EnvCheckedFirst == []C14_State /\ [][C14_Step]_vars

\* C14 witness: only the second endpoint's URL is missing and the run has
\* exited with the missing-env error.
C14_Witness ==
  envMissing = {"L2_RPC_URL_SECOND"} /\ pc = "failed" /\ err.kind = "MissingEnv"

\* ---- C15
\* The canonical layout of a bundle: version, source and destination chain id
\* and salt, then the calls behind their count, then the attributes.
CanonicalLayout(bytes, b) ==
  /\ Len(bytes) = Len(b.calls) + 6
  /\ bytes[1] = b.version
  /\ bytes[2] = b.sourceChainId
  /\ bytes[3] = b.destinationChainId
  /\ bytes[4] = b.interopBundleSalt
  /\ bytes[5] = Len(b.calls)
  /\ \A i \in 1..Len(b.calls) : bytes[5 + i] = b.calls[i]
  /\ bytes[Len(bytes)] = b.bundleAttributes

C15_State ==
  flow = "exec" =>
    /\ sentLogs = "event" <=> interopBundle \in Bundles
    /\ sentLogs # "event" => (interopBundle = NoBundle /\ bundleBytes = NoBytes)
    /\ sentLogs = "event" => CanonicalLayout(bundleBytes, interopBundle)
    /\ destCalls = 0 => destArgs = NoArgs
    /\ destCalls = 1 =>
         /\ interopBundle \in Bundles
         /\ destArgs.bundleBytes = bundleBytes
         /\ CanonicalLayout(destArgs.bundleBytes, interopBundle)

C15_Step ==
  flow = "exec" =>
    /\ bundleBytes # NoBytes => UNCHANGED <<interopBundle, bundleBytes>>
    /\ bundleBytes' # bundleBytes => pc = "send_wait"
    /\ destArgs' # destArgs => (pc = "dest" /\ destArgs = NoArgs)

\* C15: the bytes executeBundle is called with are the canonical encoding of
\* the interopBundle of the InteropBundleSent event of the send receipt; they
\* are computed once, with the receipt, and neither they nor the bundle change
\* in any later step.
C15_BundleVerbatim == []C15_State /\ [][C15_Step]_vars

\* C15 witness: a finished run that carried a bundle of two calls.
C15_Witness ==
  /\ flow = "exec" /\ pc = "done" /\ Len(interopBundle.calls) = 2
  /\ destArgs.bundleBytes = bundleBytes

\* ---- C17
\* C17: the retries counter stays within 0..600 and is 600 less the
\* unsuccessful attempts; a root or finality waiter none of whose reads showed
\* what it waits for ends with its timeout error after exactly 600 reads and
\* 600 sleeps.
C17_AttemptBudget ==
  waiter \in {"finality", "root"} =>
    /\ retries \in 0..600
    /\ retries = 600 - sleeps
    /\ (outcome # "running" /\ hist # "present"
          /\ ReadClass(waiter, last, blockNumber) # "present") =>
         (outcome = "timeout" /\ fetches = 600 /\ sleeps = 600 /\ retries = 0)

\* ---- C18
C18_State ==
  flow = "exec" =>
    /\ l2ToL1Log # NoLog =>
         /\ logProof.present
         /\ l2ToL1Logs # <<>>
         /\ l2ToL1Log = IF logProof.id + 1 <= Len(l2ToL1Logs)
                          THEN l2ToL1Logs[logProof.id + 1]
                          ELSE l2ToL1Logs[1]
    /\ (logProof.present /\ l2ToL1Logs # <<>>) => l2ToL1Log # NoLog
    /\ (logProof.present /\ l2ToL1Logs = <<>>) <=> err.kind = "MissingLog"
    /\ err.kind = "MissingLog" =>
         /\ Aborted
         /\ rootKey = <<ChainIdA, 0>> /\ waiter = "none" /\ destCalls = 0
         /\ proof = NoInclusionProof
    /\ proof # NoInclusionProof => (l2ToL1Log # NoLog /\ proof.message = l2ToL1Log)
    /\ destCalls = 1 => (l2ToL1Log # NoLog /\ destArgs.proof.message = l2ToL1Log)

C18_Step ==
  flow = "exec" =>
    /\ l2ToL1Log' # l2ToL1Log => (pc = "proof_get" /\ l2ToL1Log = NoLog)
    /\ l2ToL1Logs # <<>> => UNCHANGED l2ToL1Logs
    /\ proof' # proof => (pc = "net_a1" /\ proof = NoInclusionProof)

\* C18: the message of the proof record (and of the executeBundle call) is the
\* receipt's outbound log at index logProof.id when the receipt has a log
\* there, else its log at index 0; when it has no outbound log the run fails
\* with the missing-log error, no proof record is built, no root is queried
\* and no destination call is made.
C18_LogSelection == []C18_State /\ [][C18_Step]_vars

\* C18 witness: the proof reported index 1, the receipt had two outbound logs,
\* and the second one went to the destination.
C18_Witness ==
  /\ flow = "exec" /\ pc = "done" /\ logProof.id = 1 /\ Len(l2ToL1Logs) = 2
  /\ destArgs.proof.message = l2ToL1Logs[2]

\* ---- C19
\* C19: the finality waiter has returned only if its last getBlock("finalized")
\* read gave a block whose number is at least blockNumber.
C19_FinalityObserved ==
  (waiter = "finality" /\ outcome = "ok") =>
    (last.kind = "block" /\ last.number >= blockNumber)

\* ---- C20
C20_State ==
  /\ waiter = "root" =>
       (logProof.present /\ rootKey = <<ChainIdA, logProof.batch_number>>)
  /\ (waiter = "root" /\ outcome = "ok") => RootMatches(last.root, logProof.root)
  /\ err.kind = "RootMismatch" => err.expected = logProof.root
  /\ destCalls = 1 =>
       /\ logProof.present
       /\ rootKey = <<ChainIdA, logProof.batch_number>>
       /\ destArgs.proof.l1BatchNumber = logProof.batch_number
       /\ destArgs.proof.l2MessageIndex = logProof.id
       /\ destArgs.proof.proof = logProof.proof

C20_Step ==
  /\ logProof' # logProof => (pc = "proof_get" /\ ~logProof.present)
  /\ (pc = "proof_get" /\ Aborted') => (rootKey' = <<ChainIdA, 0>> /\ destCalls' = 0)
  /\ (pc = "proof_get" /\ Aborted' /\ ~logProof'.present /\ err'.kind # "RpcError") =>
       err'.kind = "MissingLogProof"

\* C20: the key and the expected value of the root wait, and the batch number,
\* message index and proof path of the destination call, are those of the one
\* getLogProof response main fetched after the proof wait; when that response
\* is absent the run fails there with the missing-proof error, before any root
\* query or destination call.
C20_OneProofRecord == []C20_State /\ [][C20_Step]_vars

====
